---------------------------- MODULE Spec2Model ----------------------------
(***************************************************************************)
(* Model of python/pyspark/sql/connect/column.py: the Spark Connect        *)
(* expression tree builder (ColumnRef, LiteralExpression, SortOrder,       *)
(* ScalarFunctionExpression, the operator overloads of Expression) and     *)
(* its lowering to proto.Expression messages (to_plan).                    *)
(*                                                                         *)
(* Python values are tagged records.  A Python int is unbounded, so it is  *)
(* kept as two limbs, hi * 2^16 + lo with 0 <= lo < 2^16, which lets the   *)
(* model hold integers beyond the signed 32-bit range of the wire slot.    *)
(* A Python float is named by its shortest repr.                           *)
(***************************************************************************)
EXTENDS Integers, Sequences, FiniteSets, TLC

VARIABLES
    method, \* the special method of Expression the caller's expression uses
    left,   \* the expression the caller built first: the operator's self
    right,  \* the expression the caller built second: the operator's other
    last    \* the last call made on the module and what it returned

vars == <<method, left, right, last>>

---------------------------------------------------------------------------
(* Bounds of the exploration *)

\* the expressions the caller holds never have more than this many nodes in total
MaxNodes == 5

---------------------------------------------------------------------------
(* Python values *)

LimbBase == 2^16

PyInt(h, l) == [type |-> "int", hi |-> h, lo |-> l]
PyStr(x) == [type |-> "str", s |-> x]
PyFloat(r) == [type |-> "float", repr |-> r]
PyBool(x) == [type |-> "bool", b |-> x]
PyList == [type |-> "list", items |-> <<>>]
None == [type |-> "NoneType"]

\* the values the caller passes: 3, 2**31, "x", 1.5, True, []
Ints == {PyInt(0, 3), PyInt(32768, 0)}
PyValues == Ints \cup {PyStr("x"), PyFloat("1.5"), PyBool(TRUE), PyList}

ColumnNames == {"x", "y"}

\* the session argument of to_plan: None or a RemoteSparkSession
Sessions == {"None", "session"}

IsExpression(o) == "cls" \in DOMAIN o

\* type(v) is T
TypeIs(v, T) == v.type = T

\* isinstance(v, T): bool is a subclass of int
IsInstance(v, T) == v.type = T \/ (T = "int" /\ v.type = "bool")

\* get_args(PrimitiveType), the classes the operators lift
PrimitiveType == {"int", "str", "float"}

IsPrimitive(o) == ~IsExpression(o) /\ \E T \in PrimitiveType : IsInstance(o, T)

---------------------------------------------------------------------------
(* proto.Expression, the wire message *)

\* int32 field of the message: a value outside the field's range is refused
InInt32(v) == v.hi >= -32768 /\ v.hi <= 32767
Int32Of(v) == v.hi * LimbBase + v.lo

Ok(n) == [ok |-> TRUE, node |-> n]
Raise(e) == [ok |-> FALSE, error |-> e]

LiteralI32(i) == [expr_type |-> "literal",
                  literal |-> [literal_type |-> "i32", i32 |-> i]]
LiteralString(x) == [expr_type |-> "literal",
                     literal |-> [literal_type |-> "string", string |-> x]]
LiteralFp64(r) == [expr_type |-> "literal",
                   literal |-> [literal_type |-> "fp64", fp64 |-> r]]
UnresolvedAttribute(n) == [expr_type |-> "unresolved_attribute",
                           unresolved_attribute |-> [unparsed_identifier |-> n]]
UnresolvedFunction(p, a) == [expr_type |-> "unresolved_function",
                             unresolved_function |-> [parts |-> p, arguments |-> a]]

SetI32(v) ==
    IF InInt32(v) THEN Ok(LiteralI32(Int32Of(v)))
    ELSE Raise([exc |-> "ValueError", msg |-> "Value out of range", type |-> v.type])

---------------------------------------------------------------------------
(* The expression classes *)

ColumnRef(name) == [cls |-> "ColumnRef", unparsed_identifier |-> name]

from_qualified_name(name) == ColumnRef(name)

LiteralExpression(value) == [cls |-> "LiteralExpression", value |-> value]

SortOrder(col, ascending, nullsLast) ==
    [cls |-> "SortOrder", ref |-> col, ascending |-> ascending, nullsLast |-> nullsLast]

ScalarFunctionExpression(op, args) ==
    [cls |-> "ScalarFunctionExpression", op |-> op, args |-> args]

name(self) == self.unparsed_identifier

desc(self) == SortOrder(self, FALSE, TRUE)

asc(self) == SortOrder(self, TRUE, TRUE)

---------------------------------------------------------------------------
(* The operator overloads of Expression *)

\* slip: the reverse flag is ignored, self always comes first
BinOpIgnoringReverse(opname, reverse, self, other) ==
    LET lifted == IF IsPrimitive(other) THEN LiteralExpression(other) ELSE other
    IN  ScalarFunctionExpression(opname, <<self, lifted>>)

_bin_op(opname, reverse, self, other) ==
    LET lifted == IF IsPrimitive(other) THEN LiteralExpression(other) ELSE other
    IN  IF ~reverse
        THEN ScalarFunctionExpression(opname, <<self, lifted>>)
        ELSE ScalarFunctionExpression(opname, <<lifted, self>>)

\* the class body of Expression: each special method and the _bin_op it is bound to
ExpressionBindings ==
    [m \in {"__gt__", "__lt__", "__add__", "__sub__", "__mul__", "__div__",
            "__truediv__", "__mod__", "__radd__", "__rsub__", "__rmul__",
            "__rdiv__", "__rtruediv__", "__pow__", "__rpow__", "__ge__", "__le__"} |->
        CASE m = "__gt__"       -> [op |-> ">",   reverse |-> FALSE]
          [] m = "__lt__"       -> [op |-> "<",   reverse |-> FALSE]
          [] m = "__add__"      -> [op |-> "+",   reverse |-> FALSE]
          [] m = "__sub__"      -> [op |-> "-",   reverse |-> FALSE]
          [] m = "__mul__"      -> [op |-> "*",   reverse |-> FALSE]
          [] m = "__div__"      -> [op |-> "/",   reverse |-> FALSE]
          [] m = "__truediv__"  -> [op |-> "/",   reverse |-> FALSE]
          [] m = "__mod__"      -> [op |-> "%",   reverse |-> FALSE]
          [] m = "__radd__"     -> [op |-> "+",   reverse |-> TRUE]
          [] m = "__rsub__"     -> [op |-> "-",   reverse |-> TRUE]
          [] m = "__rmul__"     -> [op |-> "*",   reverse |-> TRUE]
          [] m = "__rdiv__"     -> [op |-> "/",   reverse |-> TRUE]
          [] m = "__rtruediv__" -> [op |-> "/",   reverse |-> TRUE]
          [] m = "__pow__"      -> [op |-> "pow", reverse |-> FALSE]
          [] m = "__rpow__"     -> [op |-> "pow", reverse |-> TRUE]
          [] m = "__ge__"       -> [op |-> ">=",  reverse |-> FALSE]
          [] m = "__le__"       -> [op |-> "<=",  reverse |-> FALSE]]

\* self.<m>(other) for a special method m bound in the class body
CallBinding(m, self, other) ==
    _bin_op(ExpressionBindings[m].op, ExpressionBindings[m].reverse, self, other)

\* slip: the other operand is not lifted
EqWithoutLift(self, other) == ScalarFunctionExpression("==", <<self, other>>)

__eq__(self, other) ==
    LET lifted == IF IsPrimitive(other) THEN LiteralExpression(other) ELSE other
    IN  ScalarFunctionExpression("==", <<self, lifted>>)

---------------------------------------------------------------------------
(* Lowering *)

RECURSIVE to_plan(_, _)

ColumnRefToPlan(self, session) ==
    Ok(UnresolvedAttribute(self.unparsed_identifier))

\* slip: isinstance in place of an exact type test, so that True is sent as i32 1
LiteralToPlanIsInstance(self, session) ==
    IF TypeIs(self.value, "bool") THEN SetI32(PyInt(0, IF self.value.b THEN 1 ELSE 0))
    ELSE IF TypeIs(self.value, "int") THEN SetI32(self.value)
    ELSE IF TypeIs(self.value, "str") THEN Ok(LiteralString(self.value.s))
    ELSE IF TypeIs(self.value, "float") THEN Ok(LiteralFp64(self.value.repr))
    ELSE Raise([exc |-> "ValueError", msg |-> "Could not convert literal for type",
                type |-> self.value.type])

LiteralToPlan(self, session) ==
    IF TypeIs(self.value, "int") THEN SetI32(self.value)
    ELSE IF TypeIs(self.value, "str") THEN Ok(LiteralString(self.value.s))
    ELSE IF TypeIs(self.value, "float") THEN Ok(LiteralFp64(self.value.repr))
    ELSE Raise([exc |-> "ValueError", msg |-> "Could not convert literal for type",
                type |-> self.value.type])

\* slip: a descending order is sent as a function over the column
SortOrderToPlanDirection(self, session) ==
    LET r == to_plan(self.ref, session)
    IN  IF self.ascending \/ ~r.ok THEN r
        ELSE Ok(UnresolvedFunction(<<"desc">>, <<r.node>>))

SortOrderToPlan(self, session) == to_plan(self.ref, session)

\* slip: the arguments are sent last to first
ScalarToPlanReversed(self, session) ==
    LET n == Len(self.args)
        outs == [i \in 1..n |-> to_plan(self.args[i], session)]
        failing == {i \in 1..n : ~outs[i].ok}
        first == CHOOSE i \in failing : \A j \in failing : i <= j
    IN  IF failing = {}
        THEN Ok(UnresolvedFunction(<<self.op>>, [i \in 1..n |-> outs[n + 1 - i].node]))
        ELSE Raise(outs[first].error)

\* slip: an argument that fails to lower is skipped and the rest is returned
ScalarToPlanPartial(self, session) ==
    LET outs == [i \in 1..Len(self.args) |-> to_plan(self.args[i], session)]
        good == SelectSeq(outs, LAMBDA r : r.ok)
    IN  Ok(UnresolvedFunction(<<self.op>>, [i \in 1..Len(good) |-> good[i].node]))

\* [x.to_plan(session) for x in self._args]: evaluated left to right, the first
\* exception leaves the comprehension and the method
ScalarToPlan(self, session) ==
    LET outs == [i \in 1..Len(self.args) |-> to_plan(self.args[i], session)]
        failing == {i \in 1..Len(self.args) : ~outs[i].ok}
        first == CHOOSE i \in failing : \A j \in failing : i <= j
    IN  IF failing = {}
        THEN Ok(UnresolvedFunction(<<self.op>>,
                                   [i \in 1..Len(self.args) |-> outs[i].node]))
        ELSE Raise(outs[first].error)

\* x.to_plan(session): the method of x's class; an object that is no Expression
\* has no such attribute
to_plan(x, session) ==
    IF ~IsExpression(x)
    THEN Raise([exc |-> "AttributeError", msg |-> "object has no attribute 'to_plan'",
                type |-> x.type])
    ELSE CASE x.cls = "ColumnRef" -> ColumnRefToPlan(x, session)
           [] x.cls = "LiteralExpression" -> LiteralToPlan(x, session)
           [] x.cls = "SortOrder" -> SortOrderToPlan(x, session)
           [] x.cls = "ScalarFunctionExpression" -> ScalarToPlan(x, session)

---------------------------------------------------------------------------
(* Debug strings *)

ColumnRefStr(self) == "Column(" \o self.unparsed_identifier \o ")"

\* str(self.ref) + " ASC" if self.ascending else " DESC": the conditional
\* expression binds weaker than +
SortOrderStr(self) ==
    IF self.ascending THEN ColumnRefStr(self.ref) \o " ASC" ELSE " DESC"

---------------------------------------------------------------------------
(* The caller: it builds the two operands of a binary operator bottom-up,   *)
(* each operator consuming its operands (a node owns its arguments), and    *)
(* lowers or prints what it built last.                                     *)

RECURSIVE Nodes(_)
RECURSIVE NodesOfSeq(_)
NodesOfSeq(q) == IF q = <<>> THEN 0 ELSE Nodes(Head(q)) + NodesOfSeq(Tail(q))
Nodes(o) ==
    IF ~IsExpression(o) THEN 1
    ELSE CASE o.cls = "SortOrder" -> 1 + Nodes(o.ref)
           [] o.cls = "ScalarFunctionExpression" -> 1 + NodesOfSeq(o.args)
           [] OTHER -> 1

\* the live expression objects of the caller, oldest first
objs ==
    IF left = None THEN <<>> ELSE IF right = None THEN <<left>> ELSE <<left, right>>

TotalNodes == NodesOfSeq(objs)

\* n more nodes fit; while a second operand is held, or is about to be, one
\* node is kept for the operator that will join the two
Room(n, second) == TotalNodes + n + (IF second THEN 1 ELSE 0) <= MaxNodes

\* the expression built last
Top == IF right = None THEN left ELSE right

Push(o) ==
    /\ right = None
    /\ left' = IF left = None THEN o ELSE left
    /\ right' = IF left = None THEN None ELSE o

ReplaceTop(o) ==
    /\ left # None
    /\ left' = IF right = None THEN o ELSE left
    /\ right' = IF right = None THEN None ELSE o

ReplaceBoth(o) ==
    /\ right # None
    /\ left' = o
    /\ right' = None

Methods == DOMAIN ExpressionBindings \cup {"__eq__"}

Init ==
    /\ method \in Methods
    /\ left = None
    /\ right = None
    /\ last = [call |-> "none"]

\* ColumnRef(name)
NewColumnRef ==
    /\ right = None
    /\ Room(1, left # None)
    /\ \E n \in ColumnNames :
        /\ Push(ColumnRef(n))
        /\ last' = [call |-> "ColumnRef", arg |-> n]
    /\ UNCHANGED method

\* ColumnRef.from_qualified_name(name)
FromQualifiedName ==
    /\ right = None
    /\ Room(1, left # None)
    /\ \E n \in ColumnNames :
        /\ Push(from_qualified_name(n))
        /\ last' = [call |-> "from_qualified_name", arg |-> n]
    /\ UNCHANGED method

\* LiteralExpression(v)
NewLiteral ==
    /\ right = None
    /\ Room(1, left # None)
    /\ \E v \in PyValues :
        /\ Push(LiteralExpression(v))
        /\ last' = [call |-> "LiteralExpression", arg |-> v]
    /\ UNCHANGED method

\* SortOrder(col, ascending, nullsLast) on the column reference built last
NewSortOrder ==
    /\ left # None
    /\ Top.cls = "ColumnRef"
    /\ Room(1, right # None)
    /\ \E a \in BOOLEAN, nl \in BOOLEAN :
        /\ ReplaceTop(SortOrder(Top, a, nl))
        /\ last' = [call |-> "SortOrder", self |-> Top]
    /\ UNCHANGED method

\* col.asc()
Asc ==
    /\ left # None
    /\ Top.cls = "ColumnRef"
    /\ Room(1, right # None)
    /\ ReplaceTop(asc(Top))
    /\ last' = [call |-> "asc", self |-> Top]
    /\ UNCHANGED method

\* col.desc()
Desc ==
    /\ left # None
    /\ Top.cls = "ColumnRef"
    /\ Room(1, right # None)
    /\ ReplaceTop(desc(Top))
    /\ last' = [call |-> "desc", self |-> Top]
    /\ UNCHANGED method

\* self.<method>(v) with a plain Python value v as the other operand
BinOpValue ==
    /\ method \in DOMAIN ExpressionBindings
    /\ left # None
    /\ Room(2, right # None)
    /\ \E v \in PyValues :
        /\ ReplaceTop(CallBinding(method, Top, v))
        /\ last' = [call |-> "_bin_op", self |-> Top, other |-> v]
    /\ UNCHANGED method

\* self.<method>(other) with the two expressions built last
BinOpExpr ==
    /\ method \in DOMAIN ExpressionBindings
    /\ right # None
    /\ Room(1, FALSE)
    /\ ReplaceBoth(CallBinding(method, left, right))
    /\ last' = [call |-> "_bin_op", self |-> left, other |-> right]
    /\ UNCHANGED method

\* self == v
EqValue ==
    /\ method = "__eq__"
    /\ left # None
    /\ Room(2, right # None)
    /\ \E v \in PyValues :
        /\ ReplaceTop(__eq__(Top, v))
        /\ last' = [call |-> "__eq__", self |-> Top, other |-> v]
    /\ UNCHANGED method

\* self == other
EqExpr ==
    /\ method = "__eq__"
    /\ right # None
    /\ Room(1, FALSE)
    /\ ReplaceBoth(__eq__(left, right))
    /\ last' = [call |-> "__eq__", self |-> left, other |-> right]
    /\ UNCHANGED method

\* expr.to_plan(session)
ToPlan ==
    /\ left # None
    /\ \E session \in Sessions :
        last' = [call |-> "to_plan", self |-> Top, ret |-> to_plan(Top, session)]
    /\ UNCHANGED <<method, left, right>>

\* col.name()
Name ==
    /\ left # None
    /\ Top.cls = "ColumnRef"
    /\ last' = [call |-> "name", self |-> Top, ret |-> name(Top)]
    /\ UNCHANGED <<method, left, right>>

\* str(expr) of a column reference or a sort order
Str ==
    /\ left # None
    /\ Top.cls \in {"ColumnRef", "SortOrder"}
    /\ last' = [call |-> "__str__", self |-> Top,
                ret |-> IF Top.cls = "ColumnRef" THEN ColumnRefStr(Top)
                        ELSE SortOrderStr(Top)]
    /\ UNCHANGED <<method, left, right>>

Next ==
    \/ NewColumnRef
    \/ FromQualifiedName
    \/ NewLiteral
    \/ NewSortOrder
    \/ Asc
    \/ Desc
    \/ BinOpValue
    \/ BinOpExpr
    \/ EqValue
    \/ EqExpr
    \/ ToPlan
    \/ Name
    \/ Str

Spec == Init /\ [][Next]_vars

---------------------------------------------------------------------------
(* What the properties below talk about *)

RECURSIVE SubsSeq(_)
\* o and everything below it, parents first, arguments left to right
SubsSeq(o) ==
    <<o>> \o
    IF ~IsExpression(o) THEN <<>>
    ELSE CASE o.cls = "SortOrder" -> SubsSeq(o.ref)
           [] o.cls = "ScalarFunctionExpression" ->
                LET below[i \in 0..Len(o.args)] ==
                        IF i = 0 THEN <<>> ELSE below[i - 1] \o SubsSeq(o.args[i])
                IN  below[Len(o.args)]
           [] OTHER -> <<>>

Range(q) == {q[i] : i \in 1..Len(q)}

Subs(o) == Range(SubsSeq(o))

\* every object reachable from what the caller holds
LiveSeq ==
    IF left = None THEN <<>>
    ELSE IF right = None THEN SubsSeq(left)
    ELSE SubsSeq(left) \o SubsSeq(right)

Live == Range(LiveSeq)

\* P holds of every object reachable from what the caller holds
AllLive(P(_)) == LET q == LiveSeq IN \A i \in 1..Len(q) : P(q[i])

IsA(o, c) == IsExpression(o) /\ o.cls = c

\* the three kinds of literal the wire format has a slot for
LiteralKinds == {"int", "str", "float"}

\* the error "Could not convert literal for type <T>"
UnsupportedLiteralType(T) ==
    [exc |-> "ValueError", msg |-> "Could not convert literal for type", type |-> T]

\* the Python int an i32 slot holds
PyIntOfInt32(i) == PyInt(i \div LimbBase, i % LimbBase)

\* the leaves of the tree below o: the objects whose lowering calls no other
Leaves(o) == {l \in Subs(o) : ~IsA(l, "SortOrder") /\ ~IsA(l, "ScalarFunctionExpression")}

\* the methods Python calls with the operands swapped (p + a calls a.__radd__(p))
ReflectedMethods ==
    {"__radd__", "__rsub__", "__rmul__", "__rdiv__", "__rtruediv__", "__rpow__"}

---------------------------------------------------------------------------
(* C1: every literal of a recognized kind (int, str, float), built directly *)
(* or by an operator's lifting, lowers to a literal node whose one         *)
(* populated slot is the kind's (i32, string, fp64) and holds the value    *)
(* exactly, for every integer, also outside the signed 32-bit range.       *)
C1_LiteralRoundTrip ==
    AllLive(LAMBDA e :
        (IsA(e, "LiteralExpression") /\ e.value.type \in LiteralKinds) =>
            \A s \in Sessions :
                LET r == to_plan(e, s)
                IN  /\ r.ok
                    /\ r.node.expr_type = "literal"
                    /\ CASE e.value.type = "int" ->
                               /\ r.node.literal.literal_type = "i32"
                               /\ PyIntOfInt32(r.node.literal.i32) = e.value
                          [] e.value.type = "str" ->
                               /\ r.node.literal.literal_type = "string"
                               /\ r.node.literal.string = e.value.s
                          [] e.value.type = "float" ->
                               /\ r.node.literal.literal_type = "fp64"
                               /\ r.node.literal.fp64 = e.value.repr)

(* C2: a value of an unsupported type makes lowering fail with the          *)
(* UnsupportedLiteralType error naming its type, both wrapped in a          *)
(* LiteralExpression and as the other operand of an operator.               *)
C2_UnsupportedFailsWithLiteralError ==
    AllLive(LAMBDA e : \A s \in Sessions :
        /\ (IsA(e, "LiteralExpression") /\ e.value.type \notin LiteralKinds) =>
               to_plan(e, s) = Raise(UnsupportedLiteralType(e.value.type))
        /\ IsA(e, "ScalarFunctionExpression") =>
               \A i \in 1..Len(e.args) :
                   ( /\ ~IsExpression(e.args[i])
                     /\ e.args[i].type \notin LiteralKinds
                     /\ \A j \in 1..(i - 1) : to_plan(e.args[j], s).ok ) =>
                       to_plan(e, s) = Raise(UnsupportedLiteralType(e.args[i].type)))

(* C3: a binding of Expression called as self.<m>(other), with other an     *)
(* expression or a value of a recognized kind, lowers to a function node    *)
(* that carries the binding's operator ("+" for __add__ and __radd__) and   *)
(* exactly two arguments: lower(self), lower(lift(other)) for a             *)
(* non-reversed binding, lower(lift(other)), lower(self) for a reversed one.*)
C3_OperandPlacement ==
    ( /\ last.call = "_bin_op"
      /\ (IsExpression(last.other) \/ last.other.type \in LiteralKinds) ) =>
        \A s \in Sessions :
            LET o == IF IsExpression(last.other) THEN last.other
                     ELSE LiteralExpression(last.other)
                ra == to_plan(last.self, s)
                ro == to_plan(o, s)
                r == to_plan(Top, s)
            IN  /\ IsA(Top, "ScalarFunctionExpression")
                /\ Len(Top.args) = 2
                /\ (ra.ok /\ ro.ok) =>
                     /\ r.ok
                     /\ r.node.expr_type = "unresolved_function"
                     /\ r.node.unresolved_function.parts = <<ExpressionBindings[method].op>>
                     /\ method \in {"__add__", "__radd__"} =>
                            r.node.unresolved_function.parts = <<"+">>
                     /\ r.node.unresolved_function.arguments =
                            IF method \in ReflectedMethods THEN <<ro.node, ra.node>>
                            ELSE <<ra.node, ro.node>>

\* 3 + x, dispatched to x.__radd__(3), was built and lowers to +(i32 3, x)
C3_Witness ==
    /\ method = "__radd__"
    /\ last.call = "_bin_op"
    /\ last.self = ColumnRef("x")
    /\ last.other = PyInt(0, 3)
    /\ to_plan(Top, "None") =
          Ok(UnresolvedFunction(<<"+">>, <<LiteralI32(3), UnresolvedAttribute("x")>>))

(* C4: lowering a ScalarFunctionExpression keeps the structure: the node    *)
(* has the operator name as its only part and one argument per child, the   *)
(* i-th being the lowering of the i-th child, at every nesting depth.       *)
C4_StructurePreserved ==
    AllLive(LAMBDA e :
        IsA(e, "ScalarFunctionExpression") =>
            LET r == to_plan(e, "None")
                kids == [i \in 1..Len(e.args) |-> to_plan(e.args[i], "None")]
            IN  IF \A i \in 1..Len(e.args) : kids[i].ok
                THEN r = Ok([expr_type |-> "unresolved_function",
                             unresolved_function |->
                                 [parts |-> <<e.op>>,
                                  arguments |-> [i \in 1..Len(e.args) |-> kids[i].node]]])
                ELSE ~r.ok)

\* (x + y) + 3 was lowered: its first argument is the whole lowered x + y
C4_Witness ==
    /\ last.call = "to_plan"
    /\ last.self = Top
    /\ IsA(Top, "ScalarFunctionExpression")
    /\ IsA(Top.args[1], "ScalarFunctionExpression")
    /\ last.ret.ok
    /\ last.ret.node.unresolved_function.arguments[1] =
          UnresolvedFunction(<<"+">>, <<UnresolvedAttribute("x"), UnresolvedAttribute("y")>>)
    /\ last.ret.node.unresolved_function.arguments[2] = LiteralI32(3)

(* C5: a SortOrder over a column reference, whatever its ascending and      *)
(* nullsLast, and also when it comes from asc() or desc(), lowers to what   *)
(* the column reference lowers to: the unresolved attribute of its name.    *)
C5_SortOrderLowersAsColumn ==
    /\ AllLive(LAMBDA e :
           IsA(e, "SortOrder") =>
               \A s \in Sessions :
                   /\ to_plan(e, s) = to_plan(e.ref, s)
                   /\ to_plan(e, s) = Ok(UnresolvedAttribute(name(e.ref))))
    /\ last.call \in {"asc", "desc", "SortOrder"} =>
           /\ IsA(Top, "SortOrder")
           /\ Top.ref = last.self
           /\ last.call = "asc" => Top.ascending
           /\ last.call = "desc" => ~Top.ascending
           /\ \A s \in Sessions : to_plan(Top, s) = to_plan(last.self, s)

\* x.desc() was lowered, to the unresolved attribute x
C5_Witness ==
    /\ last.call = "to_plan"
    /\ last.self = desc(ColumnRef("x"))
    /\ last.ret = Ok(UnresolvedAttribute("x"))

(* C6: a == b returns no boolean: it returns a ScalarFunctionExpression     *)
(* with operator "==" and the arguments a, lift(b), the shape the generic   *)
(* factory gives a non-reversed operator.                                   *)
C6_EqBuildsExpression ==
    last.call = "__eq__" =>
        /\ IsA(Top, "ScalarFunctionExpression")
        /\ Top.op = "=="
        /\ Len(Top.args) = 2
        /\ Top.args[1] = last.self
        /\ Top.args[2] = IF IsPrimitive(last.other) THEN LiteralExpression(last.other)
                         ELSE last.other
        /\ Top = _bin_op("==", FALSE, last.self, last.other)

\* x == 3 was built
C6_Witness ==
    /\ last.call = "__eq__"
    /\ last.self = ColumnRef("x")
    /\ last.other = PyInt(0, 3)
    /\ Top = ScalarFunctionExpression("==", <<ColumnRef("x"), LiteralExpression(PyInt(0, 3))>>)

(* C7 as stated: no LiteralExpression holding a value of an unsupported     *)
(* type ever exists in a tree, because its construction fails.              *)
C7_NoUnsupportedLiteralNode ==
    AllLive(LAMBDA e : IsA(e, "LiteralExpression") => e.value.type \in LiteralKinds)

(* C7 as amended: constructing a LiteralExpression never fails, whatever    *)
(* the value; a node holding a value of an unsupported type fails only when *)
(* it is lowered, with the UnsupportedLiteralType error naming the type,    *)
(* and that is the same for a node built directly and for one an operator   *)
(* lifted.                                                                  *)
C7_UnsupportedFailsAtLowering ==
    /\ last.call = "LiteralExpression" => Top = [cls |-> "LiteralExpression", value |-> last.arg]
    /\ (last.call \in {"_bin_op", "__eq__"} /\ IsPrimitive(last.other)) =>
           [cls |-> "LiteralExpression", value |-> last.other] \in Live
    /\ AllLive(LAMBDA e :
           (IsA(e, "LiteralExpression") /\ e.value.type \notin LiteralKinds) =>
               to_plan(e, "None") = Raise(UnsupportedLiteralType(e.value.type)))

\* LiteralExpression([]) was built, without failing, and failed when lowered
C7_Witness ==
    /\ last.call = "to_plan"
    /\ last.self = LiteralExpression(PyList)
    /\ last.self \in Live
    /\ last.ret = Raise(UnsupportedLiteralType("list"))

(* C8, outcome: lowering is all or nothing: when an object of              *)
(* the tree fails to lower, to_plan on the root fails, returns no node, and *)
(* the error is the one a failing leaf raised, unchanged; to_plan leaves    *)
(* every expression as it was, and lowering again, with any session or      *)
(* none, gives the same outcome.                                            *)
C8_AllOrNothingState ==
    last.call = "to_plan" =>
        /\ last.self = Top
        /\ \A s \in Sessions : to_plan(Top, s) = last.ret
        /\ LET F == {o \in Subs(Top) : ~to_plan(o, "None").ok}
           IN  /\ last.ret.ok <=> F = {}
               /\ last.ret.ok => DOMAIN last.ret = {"ok", "node"}
               /\ ~last.ret.ok =>
                    /\ DOMAIN last.ret = {"ok", "error"}
                    /\ \E l \in Leaves(Top) \cap F :
                           last.ret.error = to_plan(l, "None").error
               /\ \A o \in F :
                      \E l \in Leaves(o) \cap F :
                          to_plan(o, "None").error = to_plan(l, "None").error

(* C8, whole: the outcome above holds after every to_plan call, and a       *)
(* to_plan call changes neither of the expressions the caller holds.        *)
C8_AllOrNothing ==
    /\ []C8_AllOrNothingState
    /\ [][last'.call = "to_plan" /\ last' # last => (left' = left /\ right' = right)]_vars

\* x + LiteralExpression([]) nested in an outer + was lowered and failed
C8_Witness ==
    /\ last.call = "to_plan"
    /\ IsA(Top, "ScalarFunctionExpression")
    /\ \E i \in 1..Len(Top.args) :
           /\ IsA(Top.args[i], "ScalarFunctionExpression")
           /\ LiteralExpression(PyList) \in Subs(Top.args[i])
    /\ last.ret = Raise(UnsupportedLiteralType("list"))

(* C9: every value an operator lifts into a LiteralExpression is of a type  *)
(* the lowering of literals recognizes; a bool is not lifted into a node    *)
(* that lowering then refuses.                                              *)
C9_LifterAgreesWithLowering ==
    (last.call \in {"_bin_op", "__eq__"} /\ ~IsExpression(last.other)) =>
        \A e \in {Top.args[i] : i \in 1..Len(Top.args)} :
            (IsA(e, "LiteralExpression") /\ e.value = last.other) =>
                \A s \in Sessions :
                    to_plan(e, s) # Raise(UnsupportedLiteralType(e.value.type))

(* C10: the debug string of a SortOrder is the debug string of its column   *)
(* followed by " ASC" when ascending and by " DESC" when not.               *)
C10_SortOrderStr ==
    (last.call = "__str__" /\ IsA(last.self, "SortOrder")) =>
        last.ret = ColumnRefStr(last.self.ref) \o
                       (IF last.self.ascending THEN " ASC" ELSE " DESC")

===========================================================================
